---- MODULE Spec2Model ----
(***************************************************************************)
(* Underwater photo editor: the per-pixel adjustment loop and the render   *)
(* effect of App.tsx, and the pointer state machine of CurveEditor.tsx.    *)
(*                                                                         *)
(* JavaScript numbers are modelled as exact rationals [n, d] in lowest     *)
(* terms (d > 0).  Every arithmetic expression of the source is written    *)
(* with the same operands in the same order through RAdd, RSub, RMul and   *)
(* RDiv; a store into the Uint8ClampedArray rounds half to even.           *)
(***************************************************************************)
EXTENDS Integers, Sequences, FiniteSets, TLC

VARIABLES
    \* ---- App.tsx: component state and the canvas ----
    image,          \* useState<string | null>: the file whose data URL it
                    \* holds, NoImage when null
    adjustments,    \* useState<ColorAdjustments>
    showBefore,     \* useState(false)
    canvas,         \* pixels the canvas shows (Blank before any draw)
    readers,        \* files whose FileReader has not fired onload yet
    loading,        \* Image objects whose load has not completed yet, in
                    \* the order applyAdjustments created them
    \* ---- App.tsx: one pass of the pixel loop of img.onload ----
    source,         \* pixels of the decoded image (what drawImage paints)
    data,           \* imageData.data, the buffer the loop rewrites
    i,              \* index of the pixel the loop is at (1-based)
    r, g, b,        \* the loop's locals
    zone,           \* which branch of the zone if/else-if chain ran
    pc,             \* position inside the loop body
    \* ---- CurveEditor.tsx ----
    curve,          \* the curve prop
    isDragging,     \* useState(false)
    dragIndex,      \* useState(-1)
    hoveredIndex,   \* useState(-1)
    emitted,        \* what the latest handler passed to onChange, NoEmit
                    \* when it did not call it
    event,          \* the CurveEditor handler that ran last
    \* ---- CurveEditor.tsx: a value taken to the canvas and back ----
    rtValue,        \* the value given to valueToCanvas
    rtIsY,          \* the isY argument of both conversions
    rtCoord,        \* what valueToCanvas returned
    rtResult,       \* what canvasToValue returned for rtCoord
    rtPc            \* how far the round trip has got

appVars    == <<image, adjustments, showBefore, canvas, readers, loading>>
loopVars   == <<source, data, i, r, g, b, zone, pc>>
widgetVars == <<curve, isDragging, dragIndex, hoveredIndex, emitted, event>>
coordVars  == <<rtValue, rtIsY, rtCoord, rtResult, rtPc>>
vars == <<image, adjustments, showBefore, canvas, readers, loading,
          source, data, i, r, g, b, zone, pc,
          curve, isDragging, dragIndex, hoveredIndex, emitted, event,
          rtValue, rtIsY, rtCoord, rtResult, rtPc>>

----------------------------------------------------------------------------
(* Numbers *)

Abs(x) == IF x < 0 THEN -x ELSE x

RECURSIVE GCD(_, _)
GCD(x, y) == IF y = 0 THEN x ELSE GCD(y, x % y)

\* the rational n/d (d > 0) in lowest terms
Rat(n, d) ==
    LET k == GCD(Abs(n), d)
    IN  [n |-> n \div k, d |-> d \div k]

Num(k) == [n |-> k, d |-> 1]

RNeg(x) == [n |-> -x.n, d |-> x.d]

RAdd(x, y) ==
    LET k == GCD(x.d, y.d)
    IN  Rat(x.n * (y.d \div k) + y.n * (x.d \div k), (x.d \div k) * y.d)

RSub(x, y) == RAdd(x, RNeg(y))

RMul(x, y) ==
    LET k1 == GCD(Abs(x.n), y.d)
        k2 == GCD(Abs(y.n), x.d)
    IN  Rat((x.n \div k1) * (y.n \div k2), (x.d \div k2) * (y.d \div k1))

\* x / y for y # 0
RDiv(x, y) ==
    RMul(x, IF y.n > 0 THEN [n |-> y.d, d |-> y.n] ELSE [n |-> -y.d, d |-> -y.n])

RLt(x, y) ==
    LET k == GCD(x.d, y.d)
    IN  x.n * (y.d \div k) < y.n * (x.d \div k)

RLe(x, y) == ~RLt(y, x)
RGt(x, y) == RLt(y, x)
RGe(x, y) == ~RLt(x, y)

\* Math.min, Math.max
RMin(x, y) == IF RLt(y, x) THEN y ELSE x
RMax(x, y) == IF RLt(x, y) THEN y ELSE x

\* x squared (the ** 2 of the hit tests)
RSq(x) == RMul(x, x)

\* Math.floor for x >= 0
RFloor(x) == x.n \div x.d

\* Store of a number into a Uint8ClampedArray: clamp to 0..255, round to the
\* nearest integer, a tie to the even one.
ToUint8Clamped(x) ==
    IF RLe(x, Num(0)) THEN 0
    ELSE IF RGe(x, Num(255)) THEN 255
    ELSE LET f    == RFloor(x)
             twice == 2 * (x.n - f * x.d)
         IN  IF twice < x.d THEN f
             ELSE IF twice > x.d THEN f + 1
             ELSE IF f % 2 = 0 THEN f ELSE f + 1

----------------------------------------------------------------------------
(* Numbers as IEEE 754 binary64, for the conversions whose rounding is in      *)
(* question.  A number x >= 0 is [m, e]: m the bits of an integer, most       *)
(* significant first and without leading zeros (<<>> for 0), and x = m * 2^e. *)
(* Every operation computes the exact result and rounds it to 53 significant  *)
(* bits, ties to even.                                                       *)

\* bits of the significand of a binary64 number
F64Precision == 53
\* bits a quotient is carried to before it is rounded
F64GuardBits == 64
\* bits of the digits the arithmetic below works on
F64LimbBits == 15

Zeros(k) == [j \in 1..k |-> 0]

\* bs without its leading zeros
StripZeros(bs) ==
    LET ones == {j \in DOMAIN bs : bs[j] = 1}
    IN  IF ones = {} THEN <<>>
        ELSE SubSeq(bs, CHOOSE j \in ones : \A k \in ones : j <= k, Len(bs))

\* the bits of the integer n, 0 <= n < 2^31
BitsOf(n) == StripZeros([j \in 1..31 |-> (n \div 2^(31 - j)) % 2])

\* bs + 1
Incr(bs) ==
    LET zeros == {j \in DOMAIN bs : bs[j] = 0}
    IN  IF zeros = {} THEN <<1>> \o Zeros(Len(bs))
        ELSE LET z == CHOOSE j \in zeros : \A k \in zeros : k <= j
             IN  [j \in DOMAIN bs |->
                    IF j < z THEN bs[j] ELSE IF j = z THEN 1 ELSE 0]

\* the binary64 number nearest to bs * 2^e (plus a nonzero fraction of the
\* last bit when sticky), ties to even
F64Round(bs, e, sticky) ==
    LET n == Len(bs)
    IN  IF n <= F64Precision THEN [m |-> bs, e |-> e]
        ELSE LET keep  == SubSeq(bs, 1, F64Precision)
                 guard == bs[F64Precision + 1]
                 rest  == sticky \/ \E j \in (F64Precision + 2)..n : bs[j] = 1
                 up    == guard = 1 /\ (rest \/ keep[F64Precision] = 1)
             IN  [m |-> IF up THEN Incr(keep) ELSE keep,
                  e |-> e + n - F64Precision]

\* the integer k >= 0 as a number
F64Int(k) == [m |-> BitsOf(k), e |-> 0]

\* the integer whose bits are bs[k..hi]
RECURSIVE LimbValue(_, _, _, _)
LimbValue(bs, k, hi, acc) ==
    IF k > hi THEN acc ELSE LimbValue(bs, k + 1, hi, 2 * acc + bs[k])

\* bs as digits of F64LimbBits bits each, most significant first
ToLimbs(bs) ==
    LET n      == (Len(bs) + F64LimbBits - 1) \div F64LimbBits
        padded == Zeros(n * F64LimbBits - Len(bs)) \o bs
    IN  [k \in 1..n |->
            LimbValue(padded, (k - 1) * F64LimbBits + 1, k * F64LimbBits, 0)]

\* the bits of the digits ls
FromLimbs(ls) ==
    StripZeros([j \in 1..(F64LimbBits * Len(ls)) |->
        (ls[(j - 1) \div F64LimbBits + 1]
            \div 2^(F64LimbBits - 1 - ((j - 1) % F64LimbBits))) % 2])

\* ls * c for an integer c > 0, from the last digit to the first
RECURSIVE MulLimbsFrom(_, _, _, _, _)
MulLimbsFrom(ls, k, c, carry, acc) ==
    IF k = 0 THEN <<carry>> \o acc
    ELSE LET t == ls[k] * c + carry
         IN  MulLimbsFrom(ls, k - 1, c, t \div 2^F64LimbBits,
                          <<t % 2^F64LimbBits>> \o acc)

\* quotient q and remainder r of ls divided by the integer c > 0
RECURSIVE DivLimbsFrom(_, _, _, _, _)
DivLimbsFrom(ls, c, k, rem, q) ==
    IF k > Len(ls) THEN [q |-> q, r |-> rem]
    ELSE LET cur == rem * 2^F64LimbBits + ls[k]
         IN  DivLimbsFrom(ls, c, k + 1, cur % c, Append(q, cur \div c))

\* xs - ys for digit strings of one length with xs >= ys
RECURSIVE SubLimbsFrom(_, _, _, _, _)
SubLimbsFrom(xs, ys, k, borrow, acc) ==
    IF k = 0 THEN acc
    ELSE LET t == xs[k] - ys[k] - borrow
         IN  SubLimbsFrom(xs, ys, k - 1, IF t < 0 THEN 1 ELSE 0,
                          <<IF t < 0 THEN t + 2^F64LimbBits ELSE t>> \o acc)

\* xs + ys for digit strings of one length
RECURSIVE AddLimbsFrom(_, _, _, _, _)
AddLimbsFrom(xs, ys, k, carry, acc) ==
    IF k = 0 THEN <<carry>> \o acc
    ELSE LET t == xs[k] + ys[k] + carry
         IN  AddLimbsFrom(xs, ys, k - 1, t \div 2^F64LimbBits,
                          <<t % 2^F64LimbBits>> \o acc)

\* x and y over a common exponent, as bit strings of one length
AlignBits(x, y) ==
    LET e  == IF x.e < y.e THEN x.e ELSE y.e
        xs == x.m \o Zeros(x.e - e)
        ys == y.m \o Zeros(y.e - e)
        n  == IF Len(xs) < Len(ys) THEN Len(ys) ELSE Len(xs)
    IN  [x |-> Zeros(n - Len(xs)) \o xs, y |-> Zeros(n - Len(ys)) \o ys,
         e |-> e]

\* x < y
F64Lt(x, y) ==
    LET a == AlignBits(x, y)
        d == {j \in DOMAIN a.x : a.x[j] # a.y[j]}
    IN  d # {} /\ a.x[CHOOSE j \in d : \A k \in d : j <= k] = 0

\* x === y
F64Eq(x, y) == ~F64Lt(x, y) /\ ~F64Lt(y, x)

\* x - y exactly, for x >= y
F64ExactSub(x, y) ==
    LET a  == AlignBits(x, y)
        xs == ToLimbs(a.x)
        ys == ToLimbs(a.y)
    IN  [m |-> FromLimbs(SubLimbsFrom(xs, ys, Len(xs), 0, <<>>)), e |-> a.e]

\* x - y for x >= y
F64Sub(x, y) ==
    LET d == F64ExactSub(x, y) IN F64Round(d.m, d.e, FALSE)

\* x + y
F64Add(x, y) ==
    LET a  == AlignBits(x, y)
        xs == ToLimbs(a.x)
        ys == ToLimbs(a.y)
    IN  F64Round(FromLimbs(AddLimbsFrom(xs, ys, Len(xs), 0, <<>>)), a.e, FALSE)

\* x * c for an integer c > 0
F64Mul(x, c) ==
    LET ls == ToLimbs(x.m)
    IN  F64Round(FromLimbs(MulLimbsFrom(ls, Len(ls), c, 0, <<>>)), x.e, FALSE)

\* x / c for an integer c > 0
F64Div(x, c) ==
    IF x.m = <<>> THEN x
    ELSE LET d == DivLimbsFrom(ToLimbs(x.m \o Zeros(F64GuardBits)), c, 1, 0,
                               <<>>)
         IN  F64Round(FromLimbs(d.q), x.e - F64GuardBits, d.r # 0)

\* Math.min
F64Min(x, y) == IF F64Lt(y, x) THEN y ELSE x

\* Math.max(0, x)
F64Max0(x) == IF F64Lt(x, F64Int(0)) THEN F64Int(0) ELSE x

----------------------------------------------------------------------------
(* App.tsx: the adjustment record *)

IdentityCurve == <<0, 25, 50, 75, 100>>

defaultAdjustments ==
    [ temperature |-> 0, tint |-> 0, contrast |-> 0, saturation |-> 0,
      highlights |-> 0, midtones |-> 0, shadows |-> 0,
      whites |-> 0, blacks |-> 0,
      redCurve |-> IdentityCurve, greenCurve |-> IdentityCurve,
      blueCurve |-> IdentityCurve, rgbCurve |-> IdentityCurve,
      selectiveRed |-> 0, selectiveOrange |-> 0, selectiveYellow |-> 0,
      selectiveGreen |-> 0, selectiveCyan |-> 0, selectiveBlue |-> 0,
      selectiveMagenta |-> 0,
      saturationRed |-> 0, saturationOrange |-> 0, saturationYellow |-> 0,
      saturationGreen |-> 0, saturationCyan |-> 0, saturationBlue |-> 0,
      saturationMagenta |-> 0 ]

\* the controls the pixel loop reads
AppliedControls ==
    {"temperature", "tint", "contrast", "saturation",
     "highlights", "midtones", "shadows"}

\* const underwaterPresets = [...]: each record is defaultAdjustments with the
\* fields the preset names
underwaterPresets ==
    << [name |-> "Tropical Blue",
        adjustments |->
            [defaultAdjustments EXCEPT
                !.temperature = 15, !.tint = -10, !.contrast = 20,
                !.saturation = 25, !.highlights = -15, !.shadows = 20,
                !.selectiveBlue = -20, !.selectiveCyan = -15,
                !.saturationRed = 30, !.saturationOrange = 25]],
       [name |-> "Deep Sea",
        adjustments |->
            [defaultAdjustments EXCEPT
                !.temperature = 25, !.tint = -15, !.contrast = 30,
                !.saturation = 15, !.highlights = -25, !.shadows = 35,
                !.selectiveBlue = -30, !.selectiveCyan = -25,
                !.saturationRed = 40, !.saturationYellow = 20]],
       [name |-> "Coral Reef",
        adjustments |->
            [defaultAdjustments EXCEPT
                !.temperature = 10, !.tint = -5, !.contrast = 15,
                !.saturation = 35, !.highlights = -10, !.shadows = 15,
                !.selectiveBlue = -15, !.saturationRed = 25,
                !.saturationOrange = 30, !.saturationYellow = 20]] >>

----------------------------------------------------------------------------
(* App.tsx: the body of the pixel loop, one operator per step.  p is the   *)
(* record [r, g, b] of the loop's locals, a the adjustments.               *)

\* Clamp without its Math.min: the upper bound is lost
Clamp_NoUpperBound(x) == RMax(Num(0), x)

\* Math.min(255, Math.max(0, x))
Clamp(x) == RMin(Num(255), RMax(Num(0), x))

\* let r = data[i]; let g = data[i + 1]; let b = data[i + 2]
ReadPixel(px) == [r |-> Num(px[1]), g |-> Num(px[2]), b |-> Num(px[3])]

TemperatureStep(p, a) ==
    IF a.temperature # 0
    THEN LET temp == RDiv(Num(a.temperature), Num(100))
         IN  [p EXCEPT !.r = Clamp(RAdd(p.r, RMul(temp, Num(30)))),
                       !.b = Clamp(RSub(p.b, RMul(temp, Num(30))))]
    ELSE p

TintStep(p, a) ==
    IF a.tint # 0
    THEN LET tint == RDiv(Num(a.tint), Num(100))
         IN  [p EXCEPT !.g = Clamp(RAdd(p.g, RMul(tint, Num(30))))]
    ELSE p

ContrastFactor(a) ==
    LET contrast == RMul(RDiv(Num(a.contrast), Num(100)), Rat(255, 100))
    IN  RDiv(RMul(Num(259), RAdd(contrast, Num(255))),
             RMul(Num(255), RSub(Num(259), contrast)))

ContrastStep(p, a) ==
    IF a.contrast # 0
    THEN LET factor == ContrastFactor(a)
             F(x) == Clamp(RAdd(RMul(factor, RSub(x, Num(128))), Num(128)))
         IN  [r |-> F(p.r), g |-> F(p.g), b |-> F(p.b)]
    ELSE p

\* 0.299 * r + 0.587 * g + 0.114 * b
Luminance(p) ==
    RAdd(RAdd(RMul(Rat(299, 1000), p.r), RMul(Rat(587, 1000), p.g)),
         RMul(Rat(114, 1000), p.b))

SaturationStep(p, a) ==
    IF a.saturation # 0
    THEN LET sat  == RAdd(Num(1), RDiv(Num(a.saturation), Num(100)))
             gray == Luminance(p)
             F(x) == Clamp(RAdd(gray, RMul(sat, RSub(x, gray))))
         IN  [r |-> F(p.r), g |-> F(p.g), b |-> F(p.b)]
    ELSE p

\* const normalizedLum = luminance / 255
NormalizedLum(p) == RDiv(Luminance(p), Num(255))

\* ZoneBranch with the highlights test written >= 0.7
ZoneBranch_HighlightsFrom70(p, a) ==
    IF a.highlights # 0 /\ RGe(NormalizedLum(p), Rat(7, 10))
    THEN "highlights"
    ELSE IF /\ a.midtones # 0
            /\ RGe(NormalizedLum(p), Rat(3, 10))
            /\ RLe(NormalizedLum(p), Rat(7, 10))
    THEN "midtones"
    ELSE IF a.shadows # 0 /\ RLt(NormalizedLum(p), Rat(3, 10))
    THEN "shadows"
    ELSE "none"

\* ZoneBranch with the midtones test written > 0.3
ZoneBranch_MidtonesAbove30(p, a) ==
    IF a.highlights # 0 /\ RGt(NormalizedLum(p), Rat(7, 10))
    THEN "highlights"
    ELSE IF /\ a.midtones # 0
            /\ RGt(NormalizedLum(p), Rat(3, 10))
            /\ RLe(NormalizedLum(p), Rat(7, 10))
    THEN "midtones"
    ELSE IF a.shadows # 0 /\ RLt(NormalizedLum(p), Rat(3, 10))
    THEN "shadows"
    ELSE "none"

\* The branch of the if / else-if chain that runs, "none" when none does.
\* Each condition is the source's conjunction with the control test first
\* (the two conjuncts have no side effect).
ZoneBranch(p, a) ==
    IF a.highlights # 0 /\ RGt(NormalizedLum(p), Rat(7, 10))
    THEN "highlights"
    ELSE IF /\ a.midtones # 0
            /\ RGe(NormalizedLum(p), Rat(3, 10))
            /\ RLe(NormalizedLum(p), Rat(7, 10))
    THEN "midtones"
    ELSE IF a.shadows # 0 /\ RLt(NormalizedLum(p), Rat(3, 10))
    THEN "shadows"
    ELSE "none"

\* ZoneFactor with whites added to the zone's control
ZoneFactor_AddsWhites(a, z) ==
    RAdd(Num(1), RDiv(Num(a[z] + a.whites), Num(100)))

\* const factor = 1 + (adjustments.<zone> / 100)
ZoneFactor(a, z) == RAdd(Num(1), RDiv(Num(a[z]), Num(100)))

\* r = Math.min(255, Math.max(0, r * factor)), and so for g and b
ScaleBy(p, factor) ==
    [r |-> Clamp(RMul(p.r, factor)),
     g |-> Clamp(RMul(p.g, factor)),
     b |-> Clamp(RMul(p.b, factor))]

ZoneStep(p, a) ==
    LET z == ZoneBranch(p, a)
    IN  IF z = "none" THEN p ELSE ScaleBy(p, ZoneFactor(a, z))

\* StoreRGB with data[i + 2] = g
StoreRGB_BlueFromGreen(px, p) ==
    <<ToUint8Clamped(p.r), ToUint8Clamped(p.g), ToUint8Clamped(p.g), px[4]>>

\* data[i] = r; data[i + 1] = g; data[i + 2] = b (data[i + 3] is not written)
StoreRGB(px, p) ==
    <<ToUint8Clamped(p.r), ToUint8Clamped(p.g), ToUint8Clamped(p.b), px[4]>>

\* one iteration of the loop
ApplyPixel(px, a) ==
    StoreRGB(px,
        ZoneStep(SaturationStep(ContrastStep(TintStep(
            TemperatureStep(ReadPixel(px), a), a), a), a), a))

\* the whole loop over a buffer
ApplyBuffer(buf, a) == [k \in DOMAIN buf |-> ApplyPixel(buf[k], a)]

----------------------------------------------------------------------------
(* Values used where the source has none of its own *)

NoImage == "null"
\* a canvas nothing was drawn on: transparent black
Blank   == << <<0, 0, 0, 0>> >>
NoEmit  == <<>>

LoopIdle ==
    /\ source = <<>> /\ data = <<>> /\ i = 0
    /\ r = Num(0) /\ g = Num(0) /\ b = Num(0)
    /\ zone = "none" /\ pc = "off"

AppIdle ==
    /\ image = NoImage /\ showBefore = FALSE /\ canvas = Blank
    /\ readers = {} /\ loading = <<>>

\* a curve of integers as a curve of numbers
NumCurve(c) == [k \in DOMAIN c |-> Num(c[k])]

WidgetIdle ==
    /\ curve = NumCurve(IdentityCurve) /\ isDragging = FALSE /\ dragIndex = -1
    /\ hoveredIndex = -1 /\ emitted = NoEmit /\ event = "none"

CoordIdle ==
    /\ rtValue = F64Int(0) /\ rtIsY = FALSE /\ rtCoord = F64Int(0)
    /\ rtResult = F64Int(0) /\ rtPc = "off"

----------------------------------------------------------------------------
(* The pixel loop, step by step, over enumerated buffers and adjustments *)

\* channel values at the two ends and the centre of the 8-bit range
ChannelLevels == {0, 128, 255}

\* pixels <<r, g, b, a>> whose normalized luminance is exactly 0.7, just
\* above 0.7, exactly 0.3 and just below 0.3
Lum70Pixel      == <<18, 252, 221, 255>>
LumAbove70Pixel == <<16, 247, 252, 255>>
Lum30Pixel      == <<2, 106, 120, 255>>
LumBelow30Pixel == <<0, 121, 48, 255>>
\* pixels that temperature = 50 moves onto 0.7 and onto 0.3
Temp50To70Pixel == <<3, 252, 236, 255>>
Temp50To30Pixel == <<2, 97, 142, 255>>

BoundaryPixels ==
    {Lum70Pixel, LumAbove70Pixel, Lum30Pixel, LumBelow30Pixel}

PixelInputs ==
    {<<cr, cg, cb, 255>> : cr \in ChannelLevels, cg \in ChannelLevels,
                           cb \in ChannelLevels}
    \cup BoundaryPixels
    \cup {Temp50To70Pixel, Temp50To30Pixel,
          <<100, 100, 100, 128>>, <<200, 50, 50, 255>>}

BufferInputs ==
    {<<p>> : p \in PixelInputs}
    \cup {<<p, q>> : p \in BoundaryPixels, q \in BoundaryPixels}

\* slider values: the two extremes and the two half-way points
ControlLevels == {-100, -50, 50, 100}

\* records with exactly one applied control nonzero
SingleControl ==
    {[defaultAdjustments EXCEPT ![c] = v] :
        c \in AppliedControls, v \in ControlLevels}

\* all three zone controls nonzero and different, so that the factor a pixel
\* received shows in its value
ZoneProbe ==
    [defaultAdjustments EXCEPT !.highlights = 50, !.midtones = -50,
                               !.shadows = 20]

\* a zone probe behind one earlier step (contrast is left to SingleControl:
\* with it the luminance no longer fits TLC's 32-bit integers)
ZoneProbes ==
    {ZoneProbe}
    \cup {[ZoneProbe EXCEPT ![c] = v] :
            c \in {"temperature", "tint", "saturation"}, v \in ControlLevels}

\* a with every field the loop does not read moved away from its default,
\* to the values of level v and with the curves bent or reversed
IgnoredProbe(a, v) ==
    [c \in DOMAIN a |->
        IF c \in AppliedControls THEN a[c]
        ELSE IF c \in {"redCurve", "greenCurve", "blueCurve", "rgbCurve"}
             THEN IF v > 0 THEN <<0, 10, 50, 90, 100>>
                           ELSE <<100, 75, 50, 25, 0>>
        ELSE v]

\* records that agree on the applied controls and differ in all other fields
IgnoredProbes ==
    {IgnoredProbe(a, v) :
        a \in {defaultAdjustments, ZoneProbe,
               [defaultAdjustments EXCEPT !.contrast = 100],
               [ZoneProbe EXCEPT !.saturation = 50]},
        v \in {-100, 40}}

AdjustmentInputs ==
    {defaultAdjustments} \cup SingleControl \cup ZoneProbes \cup IgnoredProbes

Locals == [r |-> r, g |-> g, b |-> b]

InitPixel ==
    /\ source \in BufferInputs
    /\ data = source
    /\ adjustments \in AdjustmentInputs
    /\ i = 1
    /\ r = Num(0) /\ g = Num(0) /\ b = Num(0)
    /\ zone = "none"
    /\ pc = "read"
    /\ AppIdle
    /\ WidgetIdle
    /\ CoordIdle

SetLocals(p) == r' = p.r /\ g' = p.g /\ b' = p.b

Read ==
    /\ pc = "read"
    /\ SetLocals(ReadPixel(data[i]))
    /\ zone' = "none"
    /\ pc' = "temperature"
    /\ UNCHANGED <<source, data, i, appVars, widgetVars, coordVars>>

Temperature ==
    /\ pc = "temperature"
    /\ SetLocals(TemperatureStep(Locals, adjustments))
    /\ pc' = "tint"
    /\ UNCHANGED <<source, data, i, zone, appVars, widgetVars, coordVars>>

Tint ==
    /\ pc = "tint"
    /\ SetLocals(TintStep(Locals, adjustments))
    /\ pc' = "contrast"
    /\ UNCHANGED <<source, data, i, zone, appVars, widgetVars, coordVars>>

Contrast ==
    /\ pc = "contrast"
    /\ SetLocals(ContrastStep(Locals, adjustments))
    /\ pc' = "saturation"
    /\ UNCHANGED <<source, data, i, zone, appVars, widgetVars, coordVars>>

Saturation ==
    /\ pc = "saturation"
    /\ SetLocals(SaturationStep(Locals, adjustments))
    /\ pc' = "zone"
    /\ UNCHANGED <<source, data, i, zone, appVars, widgetVars, coordVars>>

\* the zone step with the band taken from the luminance of the source pixel
Zone_FromSourcePixel ==
    /\ pc = "zone"
    /\ LET z == ZoneBranch(ReadPixel(data[i]), adjustments)
       IN  /\ zone' = z
           /\ SetLocals(IF z = "none" THEN Locals
                        ELSE ScaleBy(Locals, ZoneFactor(adjustments, z)))
    /\ pc' = "store"
    /\ UNCHANGED <<source, data, i, appVars, widgetVars, coordVars>>

Zone ==
    /\ pc = "zone"
    /\ zone' = ZoneBranch(Locals, adjustments)
    /\ SetLocals(ZoneStep(Locals, adjustments))
    /\ pc' = "store"
    /\ UNCHANGED <<source, data, i, appVars, widgetVars, coordVars>>

Store ==
    /\ pc = "store"
    /\ data' = [data EXCEPT ![i] = StoreRGB(data[i], Locals)]
    /\ i' = i + 1
    /\ pc' = IF i < Len(data) THEN "read" ELSE "done"
    /\ UNCHANGED <<source, r, g, b, zone, appVars, widgetVars, coordVars>>

NextPixel ==
    \/ Read
    \/ Temperature
    \/ Tint
    \/ Contrast
    \/ Saturation
    \/ Zone
    \/ Store

SpecPixel == InitPixel /\ [][NextPixel]_vars

----------------------------------------------------------------------------
(* Properties of the pixel loop (SpecPixel) *)

InByteRange(x) == RLe(Num(0), x) /\ RLe(x, Num(255))

NonzeroControls(a) == {c \in AppliedControls : a[c] # 0}

ZoneControlsZero(a) == a.highlights = 0 /\ a.midtones = 0 /\ a.shadows = 0

\* the locals after the Zone step, as the step leaves them
LocalsAfter == [r |-> r', g |-> g', b |-> b']

\* C1 (identity law): with every control at 0, the default record, the
\* buffer the loop leaves behind equals the source buffer, channel for
\* channel, at every pixel.
C1_Identity ==
    (adjustments = defaultAdjustments /\ pc = "done") => data = source

C1_Witness ==
    /\ adjustments = defaultAdjustments
    /\ pc = "done"
    /\ Len(source) = 2
    /\ source[1] # source[2]
    /\ data = source

\* C2 (clamping law): with a single nonzero control, r, g and b are within
\* [0, 255] after every step of the loop body, and every r, g, b byte of the
\* buffer is within 0..255.
C2_Clamped ==
    Cardinality(NonzeroControls(adjustments)) = 1 =>
        /\ InByteRange(r) /\ InByteRange(g) /\ InByteRange(b)
        /\ \A k \in DOMAIN data : \A c \in 1..3 : data[k][c] \in 0..255

\* temperature = +100 on a pixel with r = 255 and b = 0: both channels were
\* pushed out of range and clamped back
C2_Witness ==
    /\ pc = "done"
    /\ adjustments = [defaultAdjustments EXCEPT !.temperature = 100]
    /\ source = << <<255, 128, 0, 255>> >>
    /\ r = Num(255) /\ b = Num(0)
    /\ data = source

\* C3 as stated: a pixel whose normalized luminance is exactly 0.7 when the
\* zone step is reached is scaled, for a nonzero highlights control, by the
\* highlights factor.
C3_Lum70IsHighlights ==
    [][(/\ pc = "zone"
        /\ adjustments.highlights # 0
        /\ NormalizedLum(Locals) = Rat(7, 10))
       => /\ zone' = "highlights"
          /\ LocalsAfter = ScaleBy(Locals, ZoneFactor(adjustments, "highlights"))
      ]_vars

\* C3 as amended: a pixel whose normalized luminance is exactly 0.7 when the
\* zone step is reached falls into the midtones band: it is scaled by the
\* midtones factor when the midtones control is nonzero and left unchanged
\* when it is zero, whatever the highlights control; the highlights factor
\* applies only above 0.7.
C3_Lum70IsMidtones ==
    [][(/\ pc = "zone"
        /\ ~ZoneControlsZero(adjustments)
        /\ NormalizedLum(Locals) = Rat(7, 10))
       => IF adjustments.midtones # 0
          THEN /\ zone' = "midtones"
               /\ LocalsAfter =
                    ScaleBy(Locals, ZoneFactor(adjustments, "midtones"))
          ELSE /\ zone' = "none"
               /\ LocalsAfter = Locals
      ]_vars

\* the pixel (18, 252, 221), luminance 178.5 = 0.7 * 255, under the zone
\* probe: halved by the midtones factor 1 - 50/100
C3_Witness ==
    /\ pc = "store"
    /\ adjustments = ZoneProbe
    /\ data[i] = Lum70Pixel
    /\ NormalizedLum(ReadPixel(data[i])) = Rat(7, 10)
    /\ zone = "midtones"
    /\ Locals = [r |-> Num(9), g |-> Num(126), b |-> Rat(221, 2)]

\* C4: the zone step selects one band from the luminance (above 0.7
\* highlights, from 0.3 up to but excluding 0.7 midtones, exactly 0.3
\* midtones, below 0.3 shadows) and applies the factor of that band alone
\* when its control is nonzero, no factor otherwise.
C4_OneZone ==
    [][pc = "zone" =>
        IF ZoneControlsZero(adjustments)
        THEN zone' = "none" /\ LocalsAfter = Locals
        ELSE LET nl == NormalizedLum(Locals)
                 OnlyFactorOf(z) ==
                    IF adjustments[z] # 0
                    THEN /\ zone' = z
                         /\ LocalsAfter =
                              ScaleBy(Locals, ZoneFactor(adjustments, z))
                    ELSE /\ zone' = "none"
                         /\ LocalsAfter = Locals
             IN  /\ \/ OnlyFactorOf("highlights")
                    \/ OnlyFactorOf("midtones")
                    \/ OnlyFactorOf("shadows")
                 /\ RGt(nl, Rat(7, 10)) => OnlyFactorOf("highlights")
                 /\ (RGe(nl, Rat(3, 10)) /\ RLt(nl, Rat(7, 10)))
                        => OnlyFactorOf("midtones")
                 /\ nl = Rat(3, 10) => OnlyFactorOf("midtones")
                 /\ RLt(nl, Rat(3, 10)) => OnlyFactorOf("shadows")
      ]_vars

\* the pixel (2, 106, 120), luminance 76.5 = 0.3 * 255, under the zone probe:
\* midtones, not shadows
C4_Witness ==
    /\ pc = "store"
    /\ adjustments = ZoneProbe
    /\ data[i] = Lum30Pixel
    /\ NormalizedLum(ReadPixel(data[i])) = Rat(3, 10)
    /\ zone = "midtones"
    /\ Locals = [r |-> Num(1), g |-> Num(53), b |-> Num(60)]

\* the luminance band of the locals p
C16_Band(p) ==
    IF RGt(NormalizedLum(p), Rat(7, 10)) THEN "highlights"
    ELSE IF RGe(NormalizedLum(p), Rat(3, 10)) THEN "midtones"
    ELSE "shadows"

\* C16: the loop body runs its steps in the order temperature, tint,
\* contrast, saturation, zone tone, each on the r, g, b the step before left,
\* and the zone step takes its band from the luminance of those adjusted
\* r, g, b: with all three zone controls set, the factor applied is the one
\* of the band the adjusted pixel is in.
C16_StepOrder ==
    [][/\ pc = "read" =>
            pc' = "temperature" /\ LocalsAfter = ReadPixel(data[i])
       /\ pc = "temperature" =>
            pc' = "tint" /\ LocalsAfter = TemperatureStep(Locals, adjustments)
       /\ pc = "tint" =>
            pc' = "contrast" /\ LocalsAfter = TintStep(Locals, adjustments)
       /\ pc = "contrast" =>
            /\ pc' = "saturation"
            /\ LocalsAfter = ContrastStep(Locals, adjustments)
       /\ pc = "saturation" =>
            pc' = "zone" /\ LocalsAfter = SaturationStep(Locals, adjustments)
       /\ pc = "zone" =>
            /\ pc' = "store"
            /\ (\A z \in {"highlights", "midtones", "shadows"} :
                    adjustments[z] # 0) =>
                  /\ zone' = C16_Band(Locals)
                  /\ LocalsAfter =
                        ScaleBy(Locals,
                                ZoneFactor(adjustments, C16_Band(Locals)))
      ]_vars

\* the pixel (16, 247, 252) is in the highlights band; temperature = -50
\* takes it to (1, 247, 255), in the midtones band, and it was halved by the
\* midtones factor
C16_Witness ==
    /\ pc = "store"
    /\ adjustments = [ZoneProbe EXCEPT !.temperature = -50]
    /\ data[i] = LumAbove70Pixel
    /\ C16_Band(ReadPixel(data[i])) = "highlights"
    /\ zone = "midtones"
    /\ Locals = [r |-> Rat(1, 2), g |-> Rat(247, 2), b |-> Rat(255, 2)]

\* a and a2 agree on the seven applied controls
SameApplied(a, a2) == \A c \in AppliedControls : a[c] = a2[c]

\* C12: the output buffer of the loop is the output for every other record
\* that agrees with the adjustments on temperature, tint, contrast,
\* saturation, highlights, midtones and shadows, whatever its whites, blacks,
\* curves and per-color fields are.
C12_OnlySevenControls ==
    pc = "done" =>
        \A a2 \in AdjustmentInputs :
            SameApplied(adjustments, a2) => data = ApplyBuffer(source, a2)

\* the loop ran to the end on a pixel of luminance 0.7 with the zone controls
\* set, whites at 40 and bent curves; the record with whites at -100 and
\* reversed curves agrees on the seven controls
C12_Witness ==
    /\ pc = "done"
    /\ source = <<Lum70Pixel>>
    /\ adjustments = IgnoredProbe(ZoneProbe, 40)
    /\ data = << <<9, 126, 110, 255>> >>
    /\ SameApplied(adjustments, IgnoredProbe(ZoneProbe, -100))
    /\ adjustments # IgnoredProbe(ZoneProbe, -100)

----------------------------------------------------------------------------
(* CurveEditor.tsx *)

CANVAS_SIZE == 200
PADDING == 20
\* the 8 of "distance <= 8"
HitRadius == 8

\* Convert curve values (0-100) to canvas coordinates
valueToCanvas(value, isY) ==
    LET normalized == RDiv(value, Num(100))
    IN  IF isY
        THEN RSub(Num(CANVAS_SIZE - PADDING),
                  RMul(normalized, Num(CANVAS_SIZE - 2 * PADDING)))
        ELSE RAdd(Num(PADDING),
                  RMul(normalized, Num(CANVAS_SIZE - 2 * PADDING)))

\* Convert canvas coordinates to curve values (0-100)
canvasToValue(coord, isY) ==
    IF isY
    THEN LET normalized == RDiv(RSub(Num(CANVAS_SIZE - PADDING), coord),
                                Num(CANVAS_SIZE - 2 * PADDING))
         IN  RMax(Num(0), RMin(Num(100), RMul(normalized, Num(100))))
    ELSE LET normalized == RDiv(RSub(coord, Num(PADDING)),
                                Num(CANVAS_SIZE - 2 * PADDING))
         IN  RMax(Num(0), RMin(Num(100), RMul(normalized, Num(100))))

\* getCurvePoints with x: valueToCanvas(index * 2.5): the points 4 apart
getCurvePoints_FourApart(c) ==
    [k \in DOMAIN c |->
        [x |-> valueToCanvas(Rat((k - 1) * 25, 10), FALSE),
         y |-> valueToCanvas(c[k], TRUE)]]

\* curve.map((y, index) => ...): point k of the sequence is the source's
\* index k - 1
getCurvePoints(c) ==
    [k \in DOMAIN c |->
        [x |-> valueToCanvas(Num((k - 1) * 25), FALSE),
         y |-> valueToCanvas(c[k], TRUE)]]

\* the hit test written distance < 8
WithinHitRadius_Strict(x, y, point) ==
    RLt(RAdd(RSq(RSub(x, point.x)), RSq(RSub(y, point.y))),
        RSq(Num(HitRadius)))

\* distance <= 8, with distance = Math.sqrt((x - point.x) ** 2 +
\* (y - point.y) ** 2): the square root is monotone, so the test is the one
\* on the squares
WithinHitRadius(x, y, point) ==
    RLe(RAdd(RSq(RSub(x, point.x)), RSq(RSub(y, point.y))),
        RSq(Num(HitRadius)))

\* for (let i = 0; i < points.length; i++) { if (distance <= 8) ... }:
\* the source index of the first point hit from index k on, -1 if none
RECURSIVE FirstHitFrom(_, _, _, _)
FirstHitFrom(points, x, y, k) ==
    IF k > Len(points) THEN -1
    ELSE IF WithinHitRadius(x, y, points[k]) THEN k - 1
    ELSE FirstHitFrom(points, x, y, k + 1)

FirstHit(c, x, y) == FirstHitFrom(getCurvePoints(c), x, y, 1)

\* onChange(c): the parent stores the vector and passes it back as the
\* curve prop
onChange(c) == emitted' = c /\ curve' = c

\* the drag update written newCurve.fill(newY, dragIndex)
DraggedCurve_FillsToEnd(c, index, y) ==
    [k \in DOMAIN c |-> IF k >= index + 1 THEN canvasToValue(y, TRUE) ELSE c[k]]

\* const newCurve = [...curve]; newCurve[dragIndex] = newY
DraggedCurve(c, index, y) ==
    [c EXCEPT ![index + 1] = canvasToValue(y, TRUE)]

handleMouseDown(x, y) ==
    LET hit == FirstHit(curve, x, y)
    IN  /\ IF hit >= 0
           THEN isDragging' = TRUE /\ dragIndex' = hit
           ELSE UNCHANGED <<isDragging, dragIndex>>
        /\ emitted' = NoEmit
        /\ event' = "down"
        /\ UNCHANGED <<curve, hoveredIndex, appVars, loopVars, coordVars>>

\* handleMouseMove whose hover branch also calls onChange(curve)
handleMouseMove_HoverEmits(x, y) ==
    /\ IF isDragging /\ dragIndex >= 0
       THEN /\ onChange(DraggedCurve(curve, dragIndex, y))
            /\ UNCHANGED hoveredIndex
       ELSE /\ hoveredIndex' = FirstHit(curve, x, y)
            /\ onChange(curve)
    /\ event' = "move"
    /\ UNCHANGED <<isDragging, dragIndex, appVars, loopVars, coordVars>>

handleMouseMove(x, y) ==
    /\ IF isDragging /\ dragIndex >= 0
       THEN /\ onChange(DraggedCurve(curve, dragIndex, y))
            /\ UNCHANGED hoveredIndex
       ELSE /\ hoveredIndex' = FirstHit(curve, x, y)
            /\ emitted' = NoEmit
            /\ UNCHANGED curve
    /\ event' = "move"
    /\ UNCHANGED <<isDragging, dragIndex, appVars, loopVars, coordVars>>

\* handleMouseUp without setIsDragging(false)
handleMouseUp_KeepsDragging ==
    /\ dragIndex' = -1
    /\ emitted' = NoEmit
    /\ event' = "up"
    /\ UNCHANGED <<isDragging, curve, hoveredIndex, appVars, loopVars, coordVars>>

handleMouseUp ==
    /\ isDragging' = FALSE
    /\ dragIndex' = -1
    /\ emitted' = NoEmit
    /\ event' = "up"
    /\ UNCHANGED <<curve, hoveredIndex, appVars, loopVars, coordVars>>

\* handleMouseLeave without setDragIndex(-1)
handleMouseLeave_KeepsIndex ==
    /\ hoveredIndex' = -1
    /\ isDragging' = FALSE
    /\ emitted' = NoEmit
    /\ event' = "leave"
    /\ UNCHANGED <<dragIndex, curve, appVars, loopVars, coordVars>>

handleMouseLeave ==
    /\ hoveredIndex' = -1
    /\ isDragging' = FALSE
    /\ dragIndex' = -1
    /\ emitted' = NoEmit
    /\ event' = "leave"
    /\ UNCHANGED <<curve, appVars, loopVars, coordVars>>

\* resetCurve written onChange(curve)
resetCurve_EmitsCurrent ==
    /\ onChange(curve)
    /\ event' = "reset"
    /\ UNCHANGED <<isDragging, dragIndex, hoveredIndex, appVars, loopVars, coordVars>>

resetCurve ==
    /\ onChange(NumCurve(IdentityCurve))
    /\ event' = "reset"
    /\ UNCHANGED <<isDragging, dragIndex, hoveredIndex, appVars, loopVars, coordVars>>

\* pointer positions inside the canvas: 8 and 8.01 units right of the column
\* of point 0, and on the columns of points 2 and 4
PointerXs == {Num(28), Rat(2801, 100), Num(100), Num(180)}
\* the rows of the values 100, 50 and 0, and a row 8 units below the plot
PointerYs == {Num(20), Num(100), Num(180), Num(188)}

\* curve vectors the parent passes at first: the identity, and one whose
\* last value is above 100 (its point is drawn at y = 12, within reach of a
\* pointer on the top row)
CurveInputs == {IdentityCurve, <<0, 25, 50, 75, 105>>}

InitWidget ==
    /\ \E c \in CurveInputs : curve = NumCurve(c)
    /\ isDragging = FALSE /\ dragIndex = -1
    /\ hoveredIndex = -1 /\ emitted = NoEmit /\ event = "none"
    /\ CoordIdle
    /\ AppIdle
    /\ adjustments = defaultAdjustments
    /\ LoopIdle

NextWidget ==
    \/ \E x \in PointerXs, y \in PointerYs : handleMouseDown(x, y)
    \/ \E x \in PointerXs, y \in PointerYs : handleMouseMove(x, y)
    \/ handleMouseUp
    \/ handleMouseLeave
    \/ resetCurve

SpecWidget == InitWidget /\ [][NextWidget]_vars

----------------------------------------------------------------------------
(* CurveEditor.tsx: valueToCanvas and canvasToValue as JavaScript evaluates  *)
(* them, every operation rounded to binary64, and a value taken through both *)

valueToCanvasF64(value, isY) ==
    LET normalized == F64Div(value, 100)
    IN  IF isY
        THEN F64Sub(F64Int(CANVAS_SIZE - PADDING),
                    F64Mul(normalized, CANVAS_SIZE - 2 * PADDING))
        ELSE F64Add(F64Int(PADDING),
                    F64Mul(normalized, CANVAS_SIZE - 2 * PADDING))

\* canvasToValue with the Y axis read like the X axis
canvasToValueF64_NotFlipped(coord, isY) ==
    LET normalized == F64Div(F64Sub(coord, F64Int(PADDING)),
                             CANVAS_SIZE - 2 * PADDING)
    IN  F64Max0(F64Min(F64Int(100), F64Mul(normalized, 100)))

canvasToValueF64(coord, isY) ==
    IF isY
    THEN LET normalized == F64Div(F64Sub(F64Int(CANVAS_SIZE - PADDING), coord),
                                  CANVAS_SIZE - 2 * PADDING)
         IN  F64Max0(F64Min(F64Int(100), F64Mul(normalized, 100)))
    ELSE LET normalized == F64Div(F64Sub(coord, F64Int(PADDING)),
                                  CANVAS_SIZE - 2 * PADDING)
         IN  F64Max0(F64Min(F64Int(100), F64Mul(normalized, 100)))

\* the values taken through the round trip: the integers of [0, 100]
RoundTripValues == {F64Int(v) : v \in 0..100}

InitCoord ==
    /\ rtValue \in RoundTripValues
    /\ rtIsY \in BOOLEAN
    /\ rtCoord = F64Int(0) /\ rtResult = F64Int(0)
    /\ rtPc = "value"
    /\ AppIdle
    /\ adjustments = defaultAdjustments
    /\ LoopIdle
    /\ WidgetIdle

ToCanvas ==
    /\ rtPc = "value"
    /\ rtCoord' = valueToCanvasF64(rtValue, rtIsY)
    /\ rtPc' = "coord"
    /\ UNCHANGED <<rtValue, rtIsY, rtResult, appVars, loopVars, widgetVars>>

ToValue ==
    /\ rtPc = "coord"
    /\ rtResult' = canvasToValueF64(rtCoord, rtIsY)
    /\ rtPc' = "done"
    /\ UNCHANGED <<rtValue, rtIsY, rtCoord, appVars, loopVars, widgetVars>>

NextCoord ==
    \/ ToCanvas
    \/ ToValue

SpecCoord == InitCoord /\ [][NextCoord]_vars

----------------------------------------------------------------------------
(* Properties of the conversions (SpecCoord) *)

\* C15 as stated: the value that comes back from the round trip equals the
\* value that went in, on the X axis and on the flipped Y axis.
C15_RoundTripExact ==
    rtPc = "done" => F64Eq(rtResult, rtValue)

\* | x - y |
C15_Distance(x, y) ==
    IF F64Lt(x, y) THEN F64ExactSub(y, x) ELSE F64ExactSub(x, y)

\* 2^-40, less than 1e-12
C15_Tolerance == [m |-> <<1>>, e |-> -40]

\* C15 as amended: the value that comes back from the round trip is within
\* floating rounding tolerance (2^-40) of the value that went in, on both
\* axes, and is that value exactly at 0, 25, 50, 75 and 100; on the Y axis
\* value 0 is at SIZE - PADDING = 180, value 100 at PADDING = 20, and the
\* next larger value at a smaller y.
C15_RoundTripWithinTolerance ==
    /\ rtPc = "done" =>
          /\ ~F64Lt(C15_Tolerance, C15_Distance(rtResult, rtValue))
          /\ (\E k \in 0..4 : rtValue = F64Int(25 * k)) =>
                F64Eq(rtResult, rtValue)
    /\ (rtPc = "coord" /\ rtIsY) =>
          /\ rtValue = F64Int(0) => F64Eq(rtCoord, F64Int(180))
          /\ rtValue = F64Int(100) => F64Eq(rtCoord, F64Int(20))
          /\ \A v \in 0..99 :
                rtValue = F64Int(v) =>
                    F64Lt(valueToCanvasF64(F64Int(v + 1), TRUE), rtCoord)

\* the value 1 went to y = 178.4 and came back as 0.9999999999999963: not
\* 1, and within the tolerance of 1
C15_Witness ==
    /\ rtPc = "done"
    /\ rtIsY
    /\ rtValue = F64Int(1)
    /\ F64Lt(rtResult, rtValue)
    /\ ~F64Lt(C15_Tolerance, C15_Distance(rtResult, rtValue))

----------------------------------------------------------------------------
(* Properties of the curve widget (SpecWidget) *)

Idle == ~isDragging /\ dragIndex = -1

IdentityVector == NumCurve(IdentityCurve)

\* C5: a pointer-move handled while Dragging(i) emits a vector of the same
\* length as the curve in which every entry other than i is the entry of the
\* curve before the move; the curve prop changes in the same way.
C5_DragChangesOnlyDraggedPoint ==
    [][(isDragging /\ dragIndex >= 0 /\ event' = "move") =>
        /\ Len(emitted') = Len(curve)
        /\ Len(curve') = Len(curve)
        /\ \A j \in 1..Len(curve) :
              j # dragIndex + 1 =>
                  emitted'[j] = curve[j] /\ curve'[j] = curve[j]
      ]_vars

\* point 2 dragged from 50 up to the top row: only its value changed
C5_Witness ==
    /\ event = "move"
    /\ isDragging /\ dragIndex = 2
    /\ emitted = NumCurve(<<0, 25, 100, 75, 100>>)
    /\ curve = emitted

C7_Within8(x, y, k) ==
    LET px == Num(PADDING + k * 40)
        py == RSub(Num(CANVAS_SIZE - PADDING),
                   RMul(curve[k + 1], Rat(16, 10)))
    IN  RLe(RAdd(RMul(RSub(x, px), RSub(x, px)),
                 RMul(RSub(y, py), RSub(y, py))), Num(64))

\* C7: a pointer-down in Idle enters Dragging(i) for the lowest index i among
\* the points within distance 8 (inclusive) of the pointer, and leaves the
\* widget Idle when every point is farther than 8 away.
C7_HitTest ==
    [][\A x \in PointerXs, y \in PointerYs :
        (Idle /\ handleMouseDown(x, y)) =>
            LET near == {k \in 0..4 : C7_Within8(x, y, k)}
            IN  IF near = {}
                THEN ~isDragging' /\ dragIndex' = -1
                ELSE /\ isDragging'
                     /\ dragIndex' \in near
                     /\ \A k \in near : dragIndex' <= k
      ]_vars

\* point 0 sits on the column x = 20 and the pointer columns nearest to it
\* are 28 and 28.01: it was hit from a distance of exactly 8
C7_Witness ==
    /\ event = "down"
    /\ isDragging /\ dragIndex = 0
    /\ curve = IdentityVector

\* C8: pointer-up and pointer-leave always leave the widget Idle; an Idle
\* widget stays Idle until a pointer-down, and a pointer-move handled in
\* Idle neither changes nor emits the curve.
C8_ReleaseEndsDrag ==
    [][/\ event' \in {"up", "leave"} => Idle'
       /\ (Idle /\ event' # "down") => Idle'
       /\ (Idle /\ event' = "move") => (emitted' = NoEmit /\ curve' = curve)
      ]_vars

\* a drag moved point 2, ended, and a later pointer-move emitted nothing
C8_Witness ==
    /\ event = "move"
    /\ Idle
    /\ emitted = NoEmit
    /\ curve = NumCurve(<<0, 25, 100, 75, 100>>)

\* C14: a pointer-move handled in Idle sets hoveredIndex to the index of a
\* point within the hit radius of the pointer, or to -1 when there is none,
\* and changes nothing else: no vector is emitted, and the curve, the
\* dragging flag and the drag index stay as they were.
C14_IdleMoveOnlyHovers ==
    [][\A x \in PointerXs, y \in PointerYs :
        (Idle /\ handleMouseMove(x, y)) =>
            /\ emitted' = NoEmit
            /\ curve' = curve
            /\ isDragging' = isDragging /\ dragIndex' = dragIndex
            /\ IF \E k \in 0..4 : C7_Within8(x, y, k)
               THEN hoveredIndex' \in 0..4 /\ C7_Within8(x, y, hoveredIndex')
               ELSE hoveredIndex' = -1
      ]_vars

\* the pointer moved over point 2 of the identity curve with no button
\* pressed
C14_Witness ==
    /\ event = "move"
    /\ Idle
    /\ hoveredIndex = 2
    /\ emitted = NoEmit
    /\ curve = IdentityVector

\* C18: in every reachable state of the widget the dragging flag and the
\* drag index agree: isDragging holds exactly when dragIndex is in 0..4, and
\* fails exactly when dragIndex is -1.
C18_FlagAndIndexAgree ==
    /\ dragIndex \in -1..4
    /\ isDragging <=> dragIndex \in 0..4
    /\ ~isDragging <=> dragIndex = -1

\* point 4 was dragged to the bottom row and the pointer then left the
\* canvas: flag and index were set together and cleared together
C18_Witness ==
    /\ event = "leave"
    /\ ~isDragging /\ dragIndex = -1
    /\ curve = NumCurve(<<0, 25, 50, 75, 0>>)

\* pointer columns on, beside and midway between the columns of the points
C19_PointerXs ==
    PointerXs \cup {Num(20), Num(32), Num(40), Num(48), Num(52), Num(60),
                    Num(80), Num(120), Num(160), Num(172)}

\* squared distance from the pointer to a point
C19_Dist2(x, y, point) ==
    RAdd(RSq(RSub(x, point.x)), RSq(RSub(y, point.y)))

\* C19: the points of the curve are drawn on the columns 20, 60, 100, 140
\* and 180, and for every pointer position at most one of them is within the
\* hit radius of 8; the first match of the scan, used by pointer-down and by
\* hover, is then the only match and the point nearest to the pointer.
C19_AtMostOneHit ==
    LET points == getCurvePoints(curve)
    IN  /\ \A k \in DOMAIN points : points[k].x = Num(20 + 40 * (k - 1))
        /\ \A x \in C19_PointerXs, y \in PointerYs :
              LET near == {k \in DOMAIN points :
                              WithinHitRadius(x, y, points[k])}
              IN  /\ Cardinality(near) <= 1
                  /\ \A k \in near :
                        /\ FirstHit(curve, x, y) = k - 1
                        /\ \A j \in DOMAIN points :
                              RLe(C19_Dist2(x, y, points[k]),
                                  C19_Dist2(x, y, points[j]))

\* points 2 and 4 were both dragged to the bottom row, where point 0 is:
\* three points share a row, 40 apart, and a pointer 8 to the right of point
\* 0 is within the radius of point 0 alone
C19_Witness ==
    /\ curve = NumCurve(<<0, 25, 0, 75, 0>>)
    /\ WithinHitRadius(Num(28), Num(180), getCurvePoints(curve)[1])
    /\ FirstHit(curve, Num(28), Num(180)) = 0
    /\ hoveredIndex = 0

\* x lies in [0, 100]
InCurveRange(x) == RLe(Num(0), x) /\ RLe(x, Num(100))

\* C13: every curve vector the widget emits, on a drag move or on reset, has
\* all its values within [0, 100], also when the curve it was given has a
\* value outside [0, 100].
C13_EmitsOnlyInRange ==
    emitted # NoEmit => \A k \in DOMAIN emitted : InCurveRange(emitted[k])

----------------------------------------------------------------------------
(* App.tsx: upload, state changes and the render effect *)

\* files the user can select: an image and a file that is no image
Files == {"photoA", "broken"}

\* whether the browser can decode the file's data URL as an image
Decodable(f) == f # "broken"

\* the pixels of a decoded file (none for a file that does not decode): reds
\* so saturated that the loop's numbers stay within TLC's 32-bit integers
\* under every preset; <<255, 1, 0>> has normalized luminance just above 0.3
\* and <<255, 0, 0>> just below
Pixels(f) ==
    IF f = "photoA" THEN << <<255, 1, 0, 255>>, <<255, 0, 0, 128>> >>
    ELSE <<>>

\* slider positions the user moves to
SliderInputs ==
    [midtones |-> {0, -50}]

\* pending Image loads the model follows at a time
MaxLoading == 2

\* img.onload without its drawImage: the loop runs on what the canvas holds
Rendered_FromCanvas(f, a, before) ==
    IF before THEN canvas ELSE ApplyBuffer(canvas, a)

\* What img.onload leaves on the canvas: drawImage paints the decoded
\* source, and unless showBefore the loop rewrites what getImageData read
\* back and putImageData paints it.
Rendered(f, a, before) ==
    LET drawn == Pixels(f)
    IN  IF before THEN drawn ELSE ApplyBuffer(drawn, a)

\* useEffect(() => applyAdjustments(), [applyAdjustments]) after a state
\* change to (img, a, before): applyAdjustments returns at once without an
\* image, and otherwise creates an Image whose onload closes over a and
\* before.
applyAdjustments(img, a, before) ==
    IF img = NoImage
    THEN UNCHANGED loading
    ELSE loading' = Append(loading, [src |-> img, adjustments |-> a,
                                      showBefore |-> before])

\* room for the Image a state change creates
CanLoad(img) == img = NoImage \/ Len(loading) < MaxLoading

\* the file input exists only while image is null
handleImageUpload(f) ==
    /\ image = NoImage
    /\ f \notin readers
    /\ readers' = readers \cup {f}
    /\ UNCHANGED <<image, adjustments, showBefore, canvas, loading,
                   loopVars, widgetVars, coordVars>>

\* reader.onload: setImage(e.target.result)
readerOnload(f) ==
    /\ f \in readers
    /\ image = f \/ Len(loading) < MaxLoading
    /\ readers' = readers \ {f}
    /\ image' = f
    /\ IF image = f
       THEN UNCHANGED loading
       ELSE applyAdjustments(f, adjustments, showBefore)
    /\ UNCHANGED <<adjustments, showBefore, canvas, loopVars, widgetVars, coordVars>>

\* a Slider's onValueChange: setAdjustments(prev => ({...prev, [c]: v}))
handleSlider(c, v) ==
    /\ adjustments[c] # v
    /\ CanLoad(image)
    /\ adjustments' = [adjustments EXCEPT ![c] = v]
    /\ applyAdjustments(image, adjustments', showBefore)
    /\ UNCHANGED <<image, showBefore, canvas, readers, loopVars, widgetVars, coordVars>>

resetAdjustments ==
    /\ adjustments # defaultAdjustments
    /\ CanLoad(image)
    /\ adjustments' = defaultAdjustments
    /\ applyAdjustments(image, adjustments', showBefore)
    /\ UNCHANGED <<image, showBefore, canvas, readers, loopVars, widgetVars, coordVars>>

\* applyPreset with the preset merged into the current record instead of
\* replacing it: ({...prev, ...changed fields of the preset})
applyPreset_MergesFields(preset) ==
    /\ adjustments # preset.adjustments
    /\ CanLoad(image)
    /\ adjustments' =
          [c \in DOMAIN adjustments |->
              IF preset.adjustments[c] # defaultAdjustments[c]
              THEN preset.adjustments[c] ELSE adjustments[c]]
    /\ applyAdjustments(image, adjustments', showBefore)
    /\ UNCHANGED <<image, showBefore, canvas, readers, loopVars, widgetVars, coordVars>>

\* setAdjustments(preset.adjustments)
applyPreset(preset) ==
    /\ adjustments # preset.adjustments
    /\ CanLoad(image)
    /\ adjustments' = preset.adjustments
    /\ applyAdjustments(image, adjustments', showBefore)
    /\ UNCHANGED <<image, showBefore, canvas, readers, loopVars, widgetVars, coordVars>>

\* onClick={() => setShowBefore(!showBefore)}
toggleBefore ==
    /\ CanLoad(image)
    /\ showBefore' = ~showBefore
    /\ applyAdjustments(image, adjustments, showBefore')
    /\ UNCHANGED <<image, adjustments, canvas, readers, loopVars, widgetVars, coordVars>>

\* the sequence without its k-th element
Without(q, k) == SubSeq(q, 1, k - 1) \o SubSeq(q, k + 1, Len(q))

\* img.onload of the k-th pending Image; the loads complete in any order
imgOnload(k) ==
    /\ k \in DOMAIN loading
    /\ Decodable(loading[k].src)
    /\ loading' = Without(loading, k)
    /\ canvas' = Rendered(loading[k].src, loading[k].adjustments,
                          loading[k].showBefore)
    /\ UNCHANGED <<image, adjustments, showBefore, readers, loopVars,
                   widgetVars, coordVars>>

\* the k-th pending Image fails to decode: an error event, and the Image has
\* no onerror handler
imgError(k) ==
    /\ k \in DOMAIN loading
    /\ ~Decodable(loading[k].src)
    /\ loading' = Without(loading, k)
    /\ UNCHANGED <<image, adjustments, showBefore, canvas, readers, loopVars,
                   widgetVars, coordVars>>

InitApp ==
    /\ AppIdle
    /\ CoordIdle
    /\ adjustments = defaultAdjustments
    /\ LoopIdle
    /\ WidgetIdle

NextApp ==
    \/ \E f \in Files : handleImageUpload(f)
    \/ \E f \in Files : readerOnload(f)
    \/ \E c \in DOMAIN SliderInputs : \E v \in SliderInputs[c] :
            handleSlider(c, v)
    \/ resetAdjustments
    \/ \E k \in DOMAIN underwaterPresets : applyPreset(underwaterPresets[k])
    \/ toggleBefore
    \/ \E k \in 1..MaxLoading : imgOnload(k)
    \/ \E k \in 1..MaxLoading : imgError(k)

SpecApp == InitApp /\ [][NextApp]_vars

----------------------------------------------------------------------------
(* Properties of the render effect (SpecApp) *)

\* C9: once every pending image-load callback has run, the canvas shows the
\* render of the latest state (image, adjustments, showBefore): a render
\* started earlier never has the last word over one started later.
C9_LatestRenderWins ==
    (image # NoImage /\ Decodable(image) /\ loading = <<>>) =>
        canvas = Rendered(image, adjustments, showBefore)

\* C10: a selected file that does not decode as an image leaves the image
\* state null, and the canvas never holds the output of the loop run on an
\* absent buffer.
C10_FailedDecodeLeavesNoImage ==
    /\ image # NoImage => Decodable(image)
    /\ canvas # <<>>

\* C11: applyPreset(p), from any parameter state, leaves every field of the
\* adjustments equal to the field of p's record; no field keeps the value it
\* had before.
C11_PresetReplacesRecord ==
    [][\A k \in DOMAIN underwaterPresets :
          applyPreset(underwaterPresets[k]) =>
              \A c \in DOMAIN defaultAdjustments :
                  adjustments'[c] = underwaterPresets[k].adjustments[c]
      ]_vars

\* Deep Sea was applied with a photo loaded, and its render has completed:
\* whites and midtones are back at 0 whatever the sliders had set
C11_Witness ==
    /\ adjustments = underwaterPresets[2].adjustments
    /\ adjustments.whites = 0 /\ adjustments.midtones = 0
    /\ image = "photoA"
    /\ loading = <<>>
    /\ canvas = << <<255, 0, 0, 255>>, <<255, 0, 0, 128>> >>

\* C17: every completed render (the onload of the k-th pending Image, which
\* then leaves the queue) leaves on the canvas the loop applied once to
\* the decoded source pixels with the adjustments of that render, or the
\* source pixels themselves when that render's showBefore is on, whatever
\* the canvas held before.
C17_RenderFromSource ==
    [][\A k \in 1..MaxLoading :
          (/\ k \in DOMAIN loading
           /\ Decodable(loading[k].src)
           /\ loading' = Without(loading, k)) =>
              LET render == loading[k]
                  src    == Pixels(render.src)
              IN  canvas' =
                    IF render.showBefore THEN src
                    ELSE [j \in DOMAIN src |->
                            ApplyPixel(src[j], render.adjustments)]
      ]_vars

\* the photo was rendered, midtones moved to -50 and the photo rendered
\* again: the first pixel is halved once, (255, 1, 0) to (128, 0, 0)
C17_Witness ==
    /\ image = "photoA"
    /\ adjustments = [defaultAdjustments EXCEPT !.midtones = -50]
    /\ showBefore = FALSE
    /\ loading = <<>>
    /\ canvas = << <<128, 0, 0, 255>>, <<255, 0, 0, 128>> >>

====
